---- MODULE Spec2Model ----
(***************************************************************************)
(* Model of S2D_DetectControllers (src/src/controllers.c).                 *)
(*                                                                         *)
(* The function is one sequential process; pc names the source line it is  *)
(* about to execute.  The input subsystem (SDL) owns the device table and  *)
(* the list of open handles; the table may change while the function runs  *)
(* (DeviceTableChange), because the function re-reads it at every query    *)
(* and does not serialize access to it.                                    *)
(***************************************************************************)
EXTENDS Integers, Sequences, FiniteSets

VARIABLES
  table,       \* the subsystem's device table, index 0 is table[1]
  nextId,      \* the subsystem's next joystick instance id
  handles,     \* the subsystem's set of open handles
  sdlError,    \* the subsystem's last error string (SDL_GetError)
  changes,     \* number of device table changes since the call started
  pc,          \* the source line S2D_DetectControllers is about to execute
  n,           \* value returned by the latest SDL_NumJoysticks() call
  i,           \* the loop variable of line 21
  isGC,        \* value returned by the latest SDL_IsGameController(i) call
  controller,  \* local of line 17
  joy,         \* local of line 18
  S2D_msg,     \* the global message buffer
  out,         \* everything written so far: log lines and printf output
  visited,     \* history: the indices for which the loop body was entered
  opens        \* history: the open attempts made, in order

vars == <<table, nextId, handles, sdlError, changes, pc, n, i, isGC,
          controller, joy, S2D_msg, out, visited, opens>>

\* Bounds of the model.
MaxDevices == 2
MaxChanges == 1

\* ------------------------------------------------------------ devices

Names == {"padA", "stickB"}

\* Hardware description of each device model, as the joystick queries of
\* lines 45-46 report it.
NumAxes(name)    == IF name = "padA" THEN 6 ELSE 2
NumButtons(name) == IF name = "padA" THEN 15 ELSE 4
NumBalls(name)   == IF name = "padA" THEN 0 ELSE 1

\* A device: its instance id, its name, whether it has a controller mapping
\* (SDL_IsGameController), and whether opening it succeeds.
Device(id, name, gc, ok) == [id |-> id, name |-> name, gc |-> gc, ok |-> ok]

NULL == [id |-> 0, api |-> "none", name |-> ""]

\* ------------------------------------------------------------ formatting

Digit == <<"0", "1", "2", "3", "4", "5", "6", "7", "8", "9">>

RECURSIVE Itoa(_)
\* printf's %i / %d of a non-negative int: its decimal digits.
Itoa(k) == IF k < 10 THEN <<Digit[k + 1]>>
           ELSE Itoa(k \div 10) \o <<Digit[(k % 10) + 1]>>

\* A variant of FmtController that leaves the name out.
FmtControllerNoName(k, nm) == <<"Controller #">> \o Itoa(k) \o <<": ", "\n">>

\* A variant of FmtNoController that leaves the error string out.
FmtNoControllerNoError(k, e) ==
  <<"Could not open controller #">> \o Itoa(k) \o <<": ", "\n">>

\* A variant of FmtNoGeneric that leaves the index out.
FmtNoGenericNoIndex(k) == <<"Could not open generic controller #">>

FmtDetected(k)        == <<"Controllers detected: ">> \o Itoa(k)
FmtController(k, nm)  == <<"Controller #">> \o Itoa(k) \o <<": ", nm, "\n">>
FmtNoController(k, e) == <<"Could not open controller #">> \o Itoa(k)
                           \o <<": ">> \o e \o <<"\n">>
FmtGeneric(k)         == <<"Generic controller #">> \o Itoa(k)
FmtNoGeneric(k)       == <<"Could not open generic controller #">> \o Itoa(k)
FmtDetails(nm)        == <<"      Name: ", nm, "\n      Axes: ">>
                           \o Itoa(NumAxes(nm)) \o <<"\n      Buttons: ">>
                           \o Itoa(NumButtons(nm)) \o <<"\n      Balls: ">>
                           \o Itoa(NumBalls(nm)) \o <<"\n">>

\* ------------------------------------------------------------ subsystem

\* The input library's calls, as the function uses them.  An index outside
\* the table is no game controller and cannot be opened; a failed open
\* returns NULL and records an error string; a device that has a name
\* reports it through both name queries.

SDL_NumJoysticks == Len(table)

InRange(k) == k >= 0 /\ k < Len(table)

SDL_IsGameController(k) == InRange(k) /\ table[k + 1].gc

\* The error text the subsystem records when opening index k fails.
OpenError(k) ==
  IF ~InRange(k)
  THEN <<"There are ">> \o Itoa(Len(table)) \o <<" joysticks available">>
  ELSE <<"Couldn't open ", table[k + 1].name>>

\* SDL_GameControllerOpen(k) succeeds on a device with a controller mapping
\* that can be opened.
ControllerOpens(k) == InRange(k) /\ table[k + 1].gc /\ table[k + 1].ok

\* SDL_JoystickOpen(k) succeeds on any device that can be opened.
JoystickOpens(k) == InRange(k) /\ table[k + 1].ok

Handle(api, k) ==
  [id |-> table[k + 1].id, api |-> api, name |-> table[k + 1].name]

SDL_GameControllerOpen(k) ==
  IF ControllerOpens(k) THEN Handle("controller", k) ELSE NULL

SDL_JoystickOpen(k) ==
  IF JoystickOpens(k) THEN Handle("joystick", k) ELSE NULL

\* A variant of HandlesAfterOpen in which the handle is released again.
HandlesAfterOpenClosed(h) == handles

\* The subsystem's open-handle list and last error after an open call on
\* index k that returned h.
HandlesAfterOpen(h) == IF h = NULL THEN handles ELSE handles \cup {h}

ErrorAfterOpen(h, k) == IF h = NULL THEN OpenError(k) ELSE sdlError

SDL_GameControllerName(h) == h.name

SDL_JoystickName(h) == h.name

\* ------------------------------------------------------------ logging

INFO  == "info"
ERROR == "error"
STDOUT == "stdout"

\* One written item: its severity (or stdout for a bare printf), its text,
\* and the loop index it was written for (-1 outside the loop).
Line(sev, text, k) == [sev |-> sev, text |-> text, idx |-> k]

S2D_Log(o, msg, sev, k) == Append(o, Line(sev, msg, k))

Printf(o, text, k) == Append(o, Line(STDOUT, text, k))

\* ------------------------------------------------------------ initial state

RECURSIVE Tables(_)
\* All device tables of length k, with instance ids 1..k in order.
Tables(k) ==
  IF k = 0 THEN {<<>>}
  ELSE {Append(t, Device(k, nm, gc, ok)) :
          t \in Tables(k - 1), nm \in Names, gc \in BOOLEAN, ok \in BOOLEAN}

Init ==
  /\ \E k \in 0..MaxDevices : table \in Tables(k) /\ nextId = k + 1
  /\ handles = {}
  /\ sdlError = <<>>
  /\ changes = 0
  /\ pc = "L11"
  /\ n = 0
  /\ i = 0
  /\ isGC = FALSE
  /\ controller = NULL
  /\ joy = NULL
  /\ S2D_msg = <<>>
  /\ out = <<>>
  /\ visited = <<>>
  /\ opens = <<>>

\* ------------------------------------------------------------ the function

\* A variant of HasJoysticks that also accepts a count of zero.
HasJoysticksOrZero(count) == count >= 0

\* A variant of LoopTest that runs one index too far.
LoopTestInclusive(k, count) == k <= count

\* A variant of Opened that takes every returned value for a handle.
OpenedAlways(h) == TRUE

\* A variant of AfterController that leaves the loop on a failed open.
AfterControllerBreak(opened) == IF opened THEN "L21" ELSE "done"

\* A variant of AfterController that falls back to the joystick branch on
\* a failed open.
AfterControllerFallback(opened) == IF opened THEN "L21" ELSE "L36"

\* A variant of NextIndex that skips an index.
NextIndexSkip(k) == k + 2

\* Line 11: the summary is written only when the count is positive.
HasJoysticks(count) == count > 0

\* Line 21: the loop condition.
LoopTest(k, count) == k < count

\* Lines 26 and 42: an open call succeeded when it returned a handle.
Opened(h) == h # NULL

\* Where control goes after the controller branch (lines 25-32) and after
\* the joystick branch (lines 36-53): both fall through to the loop's ++i.
AfterController(opened) == "L21"

AfterJoystick(opened) == "L21"

\* Line 21: ++i.
NextIndex(k) == k + 1

\* History record of one open call: the interface used, the index passed,
\* the result of the capability check that preceded it, the handle returned
\* and the subsystem's last error string after the call.
Attempt(api, k, h) ==
  [api |-> api, idx |-> k, gc |-> isGC, ok |-> h # NULL, h |-> h,
   err |-> ErrorAfterOpen(h, k)]

\* Line 11: if (SDL_NumJoysticks() > 0)
L11 ==
  /\ pc = "L11"
  /\ n' = SDL_NumJoysticks
  /\ pc' = IF HasJoysticks(n') THEN "L12" ELSE "L17"
  /\ UNCHANGED <<table, nextId, handles, sdlError, changes, i, isGC,
                 controller, joy, S2D_msg, out, visited, opens>>

\* Lines 12-13: the count is queried again for the summary line.
L12 ==
  /\ pc = "L12"
  /\ n' = SDL_NumJoysticks
  /\ S2D_msg' = FmtDetected(n')
  /\ out' = S2D_Log(out, S2D_msg', INFO, -1)
  /\ pc' = "L17"
  /\ UNCHANGED <<table, nextId, handles, sdlError, changes, i, isGC,
                 controller, joy, visited, opens>>

\* Lines 17-21: the locals, and the loop's int i = 0.
L17 ==
  /\ pc = "L17"
  /\ controller' = NULL
  /\ joy' = NULL
  /\ i' = 0
  /\ pc' = "L21"
  /\ UNCHANGED <<table, nextId, handles, sdlError, changes, n, isGC,
                 S2D_msg, out, visited, opens>>

\* Line 21: i < SDL_NumJoysticks(), queried before every iteration.
L21 ==
  /\ pc = "L21"
  /\ n' = SDL_NumJoysticks
  /\ IF LoopTest(i, n')
     THEN pc' = "L24" /\ visited' = Append(visited, i)
     ELSE pc' = "done" /\ UNCHANGED visited
  /\ UNCHANGED <<table, nextId, handles, sdlError, changes, i, isGC,
                 controller, joy, S2D_msg, out, opens>>

\* Line 24: if (SDL_IsGameController(i))
L24 ==
  /\ pc = "L24"
  /\ isGC' = SDL_IsGameController(i)
  /\ pc' = IF isGC' THEN "L25" ELSE "L36"
  /\ UNCHANGED <<table, nextId, handles, sdlError, changes, n, i,
                 controller, joy, S2D_msg, out, visited, opens>>

\* Lines 25-32: open as a controller and log the outcome; then ++i.
L25 ==
  /\ pc = "L25"
  /\ controller' = SDL_GameControllerOpen(i)
  /\ handles' = HandlesAfterOpen(controller')
  /\ sdlError' = ErrorAfterOpen(controller', i)
  /\ opens' = Append(opens, Attempt("controller", i, controller'))
  /\ IF Opened(controller')
     THEN /\ S2D_msg' = FmtController(i, SDL_GameControllerName(controller'))
          /\ out' = S2D_Log(out, S2D_msg', INFO, i)
     ELSE /\ S2D_msg' = FmtNoController(i, sdlError')
          /\ out' = S2D_Log(out, S2D_msg', ERROR, i)
  /\ pc' = AfterController(Opened(controller'))
  /\ i' = IF pc' = "L21" THEN NextIndex(i) ELSE i
  /\ UNCHANGED <<table, nextId, changes, n, isGC, joy, visited>>

\* Lines 36-37: the generic controller line.
L36 ==
  /\ pc = "L36"
  /\ S2D_msg' = FmtGeneric(i)
  /\ out' = S2D_Log(out, S2D_msg', INFO, i)
  /\ pc' = "L39"
  /\ UNCHANGED <<table, nextId, handles, sdlError, changes, n, i, isGC,
                 controller, joy, visited, opens>>

\* Lines 39-53: open as a joystick; print the details or log an error;
\* then ++i.
L39 ==
  /\ pc = "L39"
  /\ joy' = SDL_JoystickOpen(i)
  /\ handles' = HandlesAfterOpen(joy')
  /\ sdlError' = ErrorAfterOpen(joy', i)
  /\ opens' = Append(opens, Attempt("joystick", i, joy'))
  /\ IF Opened(joy')
     THEN /\ out' = Printf(out, FmtDetails(SDL_JoystickName(joy')), i)
          /\ UNCHANGED S2D_msg
     ELSE /\ S2D_msg' = FmtNoGeneric(i)
          /\ out' = S2D_Log(out, S2D_msg', ERROR, i)
  /\ pc' = AfterJoystick(Opened(joy'))
  /\ i' = IF pc' = "L21" THEN NextIndex(i) ELSE i
  /\ UNCHANGED <<table, nextId, changes, n, isGC, controller, visited>>

\* ------------------------------------------------------------ environment

RemoveAt(s, k) == SubSeq(s, 1, k - 1) \o SubSeq(s, k + 1, Len(s))

\* A device is plugged in: the subsystem appends it to its table.
Plug ==
  /\ Len(table) < MaxDevices
  /\ \E nm \in Names, gc \in BOOLEAN, ok \in BOOLEAN :
       table' = Append(table, Device(nextId, nm, gc, ok))
  /\ nextId' = nextId + 1

\* A device is unplugged: the subsystem removes it from its table; a handle
\* opened on it stays open.
Unplug ==
  /\ \E k \in 1..Len(table) : table' = RemoveAt(table, k)
  /\ UNCHANGED nextId

\* The device table changes while S2D_DetectControllers is running.
DeviceTableChange ==
  /\ pc # "done"
  /\ changes < MaxChanges
  /\ changes' = changes + 1
  /\ (Plug \/ Unplug)
  /\ UNCHANGED <<handles, sdlError, pc, n, i, isGC, controller, joy,
                 S2D_msg, out, visited, opens>>

Step == L11 \/ L12 \/ L17 \/ L21 \/ L24 \/ L25 \/ L36 \/ L39

Next == Step \/ DeviceTableChange

Spec == Init /\ [][Next]_vars

\* The function is a running thread: it always takes its next step.
FairSpec == Spec /\ WF_vars(Step)

\* ------------------------------------------------------------ properties

Done == pc = "done"

\* The device table has not changed since the call started.
Stable == changes = 0

\* The items written for loop index k, in order.
LinesFor(k) == SelectSeq(out, LAMBDA l : l.idx = k)

\* The log lines of severity sev, in order.
LinesOf(sev) == SelectSeq(out, LAMBDA l : l.sev = sev)

\* Text s occurs in text t.
Contains(t, s) ==
  \E j \in 0..(Len(t) - Len(s)) : SubSeq(t, j + 1, j + Len(s)) = s

AllControllersOpen ==
  \A k \in 1..Len(table) : table[k].gc /\ table[k].ok

Range(s) == {s[k] : k \in 1..Len(s)}

\* C1 as stated: over N >= 1 devices that all support the controller
\* interface and all open, the call emits exactly N info lines in total.
C1_Original ==
  (Done /\ Stable /\ Len(table) >= 1 /\ AllControllersOpen)
    => Len(LinesOf(INFO)) = Len(table)

\* C1 amended: over N >= 1 such devices the call emits N + 1 info lines in
\* total: the "Controllers detected: N" summary first, then exactly one
\* line per device, in index order, each containing the index and the
\* device's name; nothing else is written.
C1_Amended ==
  (Done /\ Stable /\ Len(table) >= 1 /\ AllControllersOpen)
    => /\ Len(out) = Len(table) + 1
       /\ LinesOf(INFO) = out
       /\ out[1].text = FmtDetected(Len(table))
       /\ \A k \in 1..Len(table) :
            /\ out[k + 1].idx = k - 1
            /\ Contains(out[k + 1].text, <<table[k].name>>)
            /\ Contains(out[k + 1].text, <<"Controller #">> \o Itoa(k - 1))

C1_Witness ==
  Done /\ Stable /\ Len(table) >= 2 /\ AllControllersOpen
    /\ table[1].name # table[2].name

\* C2: with a device count of zero the call writes nothing, enters the loop
\* body for no index and makes no open call.
C2_NoDevices ==
  (Stable /\ Len(table) = 0)
    => out = <<>> /\ visited = <<>> /\ opens = <<>> /\ handles = {}

C2_Witness == Done /\ Stable /\ Len(table) = 0

\* C3: for every index that supports the controller interface and fails to
\* open, exactly one item is written for it, an error line containing the
\* index and the subsystem's last error string, and no info line; the loop
\* then goes on with index + 1 and visits it when it is below the count.
C3_ControllerOpenFailure ==
  /\ \A a \in Range(opens) :
       (a.api = "controller" /\ ~a.ok)
         => /\ Len(LinesFor(a.idx)) = 1
            /\ LinesFor(a.idx)[1].sev = ERROR
            /\ a.err # <<>>
            /\ Contains(LinesFor(a.idx)[1].text, a.err)
            /\ Contains(LinesFor(a.idx)[1].text,
                        <<"Could not open controller #">> \o Itoa(a.idx))
            /\ (Done /\ a.idx + 1 < n) => a.idx + 1 \in Range(visited)
  /\ (opens # <<>> /\ pc = "L21"
        /\ opens[Len(opens)].api = "controller" /\ ~opens[Len(opens)].ok)
       => /\ i = opens[Len(opens)].idx + 1
          /\ sdlError = opens[Len(opens)].err

C3_Witness ==
  /\ Done
  /\ \E a \in Range(opens) :
       a.api = "controller" /\ ~a.ok /\ a.idx + 1 \in Range(visited)

\* C4: for every device without controller support the items written are
\* the "Generic controller" info line first and then exactly one more: the
\* details print (name, axes, buttons, balls) when the joystick open
\* succeeded, an error line when it failed.
C4_GenericBranch ==
  /\ \A a \in Range(opens) :
       a.api = "joystick"
         => /\ Len(LinesFor(a.idx)) = 2
            /\ LinesFor(a.idx)[1] = Line(INFO, FmtGeneric(a.idx), a.idx)
            /\ a.ok => /\ LinesFor(a.idx)[2].sev = STDOUT
                       /\ LinesFor(a.idx)[2].text = FmtDetails(a.h.name)
            /\ ~a.ok => LinesFor(a.idx)[2].sev = ERROR
  /\ pc = "L39" => LinesFor(i) = <<Line(INFO, FmtGeneric(i), i)>>
  /\ pc = "L36" => LinesFor(i) = <<>>
  /\ pc \in {"L36", "L39"} => ~isGC

C4_Witness ==
  /\ Done
  /\ \E a, b \in Range(opens) :
       a.api = "joystick" /\ b.api = "joystick" /\ a.ok /\ ~b.ok

\* The indices 0 .. k-1 in ascending order.
Upto(k) == [j \in 1..k |-> j - 1]

\* What is written for device d at index k, as a function of the device.
ExpectedFor(k, d) ==
  IF d.gc
  THEN IF d.ok
       THEN <<Line(INFO, FmtController(k, d.name), k)>>
       ELSE <<Line(ERROR,
                   FmtNoController(k, <<"Couldn't open ", d.name>>), k)>>
  ELSE <<Line(INFO, FmtGeneric(k), k)>>
         \o (IF d.ok THEN <<Line(STDOUT, FmtDetails(d.name), k)>>
                     ELSE <<Line(ERROR, FmtNoGeneric(k), k)>>)

RECURSIVE ExpectedDevices(_, _)
\* What is written for the first k devices of table t.
ExpectedDevices(t, k) ==
  IF k = 0 THEN <<>>
  ELSE ExpectedDevices(t, k - 1) \o ExpectedFor(k - 1, t[k])

\* The whole output of a call over the fixed table t.
ExpectedOutput(t) ==
  (IF Len(t) > 0 THEN <<Line(INFO, FmtDetected(Len(t)), -1)>> ELSE <<>>)
    \o ExpectedDevices(t, Len(t))

\* C5: the per-device output is in ascending index order and made in one
\* pass (the indices entered are 0, 1, 2, ... with none repeated), and over
\* a fixed device table the output is a function of the table alone.
C5_AscendingOnePass ==
  /\ \E k \in 0..MaxDevices : visited = Upto(k)
  /\ \A j \in 1..(Len(out) - 1) : out[j].idx <= out[j + 1].idx
  /\ \A j \in 1..Len(out) : out[j].idx \in Range(visited) \cup {-1}
  /\ (Done /\ Stable) => out = ExpectedOutput(table)

C5_Witness ==
  /\ Done /\ Stable /\ Len(table) >= 2
  /\ table[1].gc # table[2].gc /\ table[1].ok # table[2].ok

\* C6 as stated: every enumerated device either opened and has an info
\* line and no error line, or failed to open and has an error line
\* carrying the subsystem's error text, on both branches.
C6_Original ==
  \A a \in Range(opens) :
    LET ls == LinesFor(a.idx)
        infos == SelectSeq(ls, LAMBDA l : l.sev = INFO)
        errs  == SelectSeq(ls, LAMBDA l : l.sev = ERROR)
    IN  \/ a.ok /\ Len(infos) >= 1 /\ Len(errs) = 0
        \/ ~a.ok /\ Len(errs) = 1 /\ Contains(errs[1].text, a.err)

\* C6 amended: every enumerated device either opened and has an info line
\* and no error line, or failed to open and has exactly one error line that
\* contains its index; the error line carries the subsystem's error text on
\* the controller branch only, and on the joystick branch a failed device
\* also has its "Generic controller" info line.
C6_Amended ==
  \A a \in Range(opens) :
    LET ls == LinesFor(a.idx)
        infos == SelectSeq(ls, LAMBDA l : l.sev = INFO)
        errs  == SelectSeq(ls, LAMBDA l : l.sev = ERROR)
    IN  \/ a.ok /\ Len(infos) = 1 /\ Len(errs) = 0
        \/ /\ ~a.ok /\ Len(errs) = 1
           /\ Contains(errs[1].text,
                       <<IF a.api = "controller"
                           THEN "Could not open controller #"
                           ELSE "Could not open generic controller #">>
                         \o Itoa(a.idx))
           /\ a.err # <<>>
           /\ a.api = "controller"
                => Len(infos) = 0 /\ Contains(errs[1].text, a.err)
           /\ a.api = "joystick"
                => Len(infos) = 1 /\ ~Contains(errs[1].text, a.err)
                     /\ errs[1].text = FmtNoGeneric(a.idx)

C6_Witness ==
  /\ Done
  /\ \E a, b \in Range(opens) :
       /\ a.api = "joystick" /\ ~a.ok
       /\ b.api = "controller" /\ ~b.ok

\* C7: no handle the call opens is closed: at every point the subsystem's
\* open handles are exactly the handles the successful opens returned, and
\* their number is the number of successful opens.
C7_HandlesLeak ==
  LET good == SelectSeq(opens, LAMBDA a : a.ok)
  IN  /\ handles = {a.h : a \in Range(good)}
      /\ Cardinality(handles) = Len(good)
      /\ \A a \in Range(opens) : ~a.ok => a.h = NULL

C7_Witness ==
  /\ Done
  /\ \E a, b \in Range(opens) :
       a.api = "controller" /\ a.ok /\ b.api = "joystick" /\ b.ok
  /\ Cardinality(handles) = 2

\* The safety half of C8, at the end of a call over a fixed table: every
\* index in [0, count) was entered exactly once, in order, and something
\* was written for each, whatever failed before it.
C8_AllVisited ==
  (Done /\ Stable)
    => /\ visited = Upto(Len(table))
       /\ Len(opens) = Len(table)
       /\ \A k \in 0..(Len(table) - 1) : LinesFor(k) # <<>>

\* C8: open failures are not fatal: the call terminates, and over a fixed
\* table it has then visited every index in [0, count) exactly once, with
\* output for every index after a failed one.
C8_NonFatal == []C8_AllVisited /\ <>Done

C8_Witness ==
  /\ Done /\ Stable /\ Len(table) >= 2
  /\ ~table[1].ok /\ LinesFor(1) # <<>>

\* C9: every enumerated device gets exactly one open attempt, chosen by the
\* capability check alone: a controller open when the check said yes, a
\* joystick open otherwise; a failed controller open is not followed by a
\* joystick open of the same index.
C9_OneAttempt ==
  /\ \A j, k \in 1..Len(opens) : opens[j].idx = opens[k].idx => j = k
  /\ \A a \in Range(opens) :
       a.api = (IF a.gc THEN "controller" ELSE "joystick")
  /\ \A k \in Range(visited) :
       (k < i \/ Done) => \E a \in Range(opens) : a.idx = k
  /\ Len(opens) <= Len(visited)

C9_Witness ==
  /\ Done
  /\ \E a \in Range(opens) : a.api = "controller" /\ ~a.ok
  /\ \E a \in Range(opens) : a.api = "joystick"

\* The number the summary line printed, as text; <<>> without a summary.
SummaryText ==
  IF out # <<>> /\ out[1].idx = -1 THEN out[1].text ELSE <<>>

\* C10: the count is queried again for the summary and before every
\* iteration: inside the loop body the index is below the count the latest
\* query returned; and when the table did not change during the call the
\* summary prints the number of devices enumerated.
C10_CountRequeried ==
  /\ pc \in {"L24", "L25", "L36", "L39"}
       => i < n /\ visited # <<>> /\ visited[Len(visited)] = i
  /\ pc = "L17" /\ out # <<>> => out[Len(out)].text = FmtDetected(n)
  /\ Done => i >= n
  /\ (Done /\ Stable /\ Len(table) > 0)
       => SummaryText = FmtDetected(Len(visited))

\* The table changed during the call and the summary differs from the
\* number of devices enumerated.
C10_Witness ==
  /\ Done /\ ~Stable
  /\ SummaryText # <<>>
  /\ SummaryText # FmtDetected(Len(visited))

====
